---- MODULE Spec2Model ----
(***************************************************************************)
(* Model of api/send.js: the serverless handler that checks a request,     *)
(* resolves the audience of a push notification (the "All" segment, or the *)
(* playerIds read from the "users" collection) and posts the payload to    *)
(* the OneSignal REST API.                                                 *)
(*                                                                         *)
(* One action is one run of the handler between two suspension points: the *)
(* synchronous part up to the first await (or up to the response), and the *)
(* continuation after each awaited promise resolves or rejects.            *)
(*                                                                         *)
(* The file holds the handler twice, as a CommonJS export and as an ES     *)
(* module default export; the two run the same steps and differ only in    *)
(* the text of the "no subscribed users" message.  The model follows the   *)
(* first.                                                                  *)
(***************************************************************************)
EXTENDS Integers, Sequences, FiniteSets, TLC

\* Largest number of documents in a snapshot returned by the users query.
MaxUsers == 3

(***************************************************************************)
(* JavaScript values.  Every value is a record with a type tag t;          *)
(* primitives carry their text in v, arrays their elements in e, objects   *)
(* their properties as further fields.  A property that is absent reads as *)
(* Undefined, as in JavaScript.                                            *)
(***************************************************************************)
Undefined == [t |-> "undefined", v |-> ""]
Null == [t |-> "null", v |-> ""]
Str(s) == [t |-> "string", v |-> s]
Bool(s) == [t |-> "boolean", v |-> s]
Num(s) == [t |-> "number", v |-> s]
Arr(seq) == [t |-> "array", e |-> seq]

\* ToBoolean, as applied by `!x`, `a || b`, `a && b` and `if (x)`.
Truthy(x) ==
  CASE x.t \in {"undefined", "null"} -> FALSE
    [] x.t = "boolean" -> x.v = "true"
    [] x.t = "number" -> x.v \notin {"0", "NaN"}
    [] x.t = "string" -> x.v # ""
    [] OTHER -> TRUE

(***************************************************************************)
(* Inputs.                                                                 *)
(***************************************************************************)
\* process.env: a variable is unset (undefined) or a string, possibly empty.
Envs ==
  [API_KEY : {Undefined, Str(""), Str("k1")},
   ONESIGNAL_APP_ID : {Undefined, Str(""), Str("app")},
   ONESIGNAL_REST_API_KEY : {Undefined, Str("rk")}]

\* req.body: absent (no body was sent), or the parsed JSON object.
Bodies ==
  {Undefined, Null} \cup
  [t : {"object"},
   title : {Undefined, Str(""), Str("Hi")},
   message : {Undefined, Str(""), Str("Hello")},
   toAll : {Undefined, Null, Bool("true"), Bool("false"),
            Num("0"), Num("1"), Str(""), Str("false")}]

\* req: the method, the x-api-key header and the body.
Requests ==
  [method : {"POST", "GET"},
   apiKey : {Undefined, Str(""), Str("k1"), Str("k2")},
   body : Bodies]

\* doc.data() of one document of the snapshot.
Docs ==
  {Undefined} \cup
  [t : {"object"},
   playerId : {Undefined, Null, Str(""), Str("p1"), Str("p2")}]

RECURSIVE SeqsUpTo(_, _)
SeqsUpTo(S, n) ==
  IF n = 0 THEN {<<>>}
  ELSE LET shorter == SeqsUpTo(S, n - 1)
       IN shorter \cup {Append(s, x) : s \in {q \in shorter : Len(q) = n - 1}, x \in S}

\* The snapshots the users query may resolve to.
Snapshots == SeqsUpTo(Docs, MaxUsers)

\* What response.json() may resolve to: JSON null, or an object whose
\* errors property is absent, an array (possibly empty) or an object.
ProviderData ==
  {Null} \cup
  [t : {"object"},
   id : {Str("n1")},
   errors : {Undefined,
             Arr(<<Str("invalid_player_ids")>>),
             Arr(<<>>),
             [t |-> "object", invalid_player_ids |-> Arr(<<Str("p1")>>)]}]

VARIABLES
  env,            \* process.env
  pc,             \* where the handler is suspended
  req,            \* the request being handled
  payload,        \* the payload object under construction
  usersSnapshot,  \* the snapshot the users query resolved to, once it has
  playerIds,      \* the ids collected from the snapshot
  data,           \* the parsed body of the provider's response, once parsed
  error,          \* the exception caught by the catch block, if any
  queries,        \* number of reads of the users collection in this request
  sent,           \* the requests handed to fetch in this request
  res             \* the responses written in this request

vars == <<env, pc, req, payload, usersSnapshot, playerIds, data, error, queries, sent, res>>

NoRequest == [method |-> "", apiKey |-> Undefined, body |-> Undefined]

Init ==
  /\ env \in Envs
  /\ pc = "idle"
  /\ req = NoRequest
  /\ payload = Undefined
  /\ usersSnapshot = Undefined
  /\ playerIds = <<>>
  /\ data = Undefined
  /\ error = "none"
  /\ queries = 0
  /\ sent = <<>>
  /\ res = <<>>

(***************************************************************************)
(* The handler's conditions and the values it builds.                      *)
(***************************************************************************)
\* req.method !== "POST" is answered 405.
MethodAllowed(r) == r.method = "POST"

\* Faulty variant of ApiKeyOk: the !apiKey test is left out, so a request
\* without the header passes when no secret is configured.
ApiKeyOkNoEmptyCheck(r) == r.apiKey = env.API_KEY

\* !apiKey || apiKey !== process.env.API_KEY is answered 401.
ApiKeyOk(r) == Truthy(r.apiKey) /\ r.apiKey = env.API_KEY

\* !ONESIGNAL_APP_ID || !ONESIGNAL_REST_API_KEY is answered 500.
ConfigOk == Truthy(env.ONESIGNAL_APP_ID) /\ Truthy(env.ONESIGNAL_REST_API_KEY)

\* const { title, message, toAll } = req.body throws a TypeError when
\* req.body is undefined or null.
DestructureThrows(r) == r.body.t \in {"undefined", "null"}

\* !title || !message is answered 400.
TitleAndMessage(r) == Truthy(r.body.title) /\ Truthy(r.body.message)

\* if (toAll)
ToAll(r) == Truthy(r.body.toAll)

\* The requests that reach the try block.
Admitted(r) == MethodAllowed(r) /\ ApiKeyOk(r) /\ ConfigOk

\* The requests that pass the title/message check.
Valid(r) == Admitted(r) /\ ~DestructureThrows(r) /\ TitleAndMessage(r)

\* Faulty variant of BasePayload: the segment is set up front for every
\* audience.
BasePayloadWithSegments(r) ==
  [app_id |-> env.ONESIGNAL_APP_ID,
   headings |-> [en |-> r.body.title],
   contents |-> [en |-> r.body.message],
   included_segments |-> Arr(<<Str("All")>>)]

\* const payload = { app_id, headings: { en: title }, contents: { en: message } }
BasePayload(r) ==
  [app_id |-> env.ONESIGNAL_APP_ID,
   headings |-> [en |-> r.body.title],
   contents |-> [en |-> r.body.message]]

\* Faulty variant of WithSegments: the segment name is set as text, not as
\* a list of names.
WithSegmentsAsText(p) == p @@ ("included_segments" :> Str("All"))

\* payload.included_segments = ["All"]
WithSegments(p) == p @@ ("included_segments" :> Arr(<<Str("All")>>))

\* payload.include_player_ids = playerIds
WithPlayerIds(p, ids) == p @@ ("include_player_ids" :> Arr(ids))

\* Faulty variant of CollectPlayerIds: unshift in place of push, so the ids
\* come out in reverse encounter order.
RECURSIVE CollectPlayerIdsUnshift(_)
CollectPlayerIdsUnshift(snap) ==
  IF snap = <<>> THEN <<>>
  ELSE LET doc == snap[Len(snap)]
           before == CollectPlayerIdsUnshift(SubSeq(snap, 1, Len(snap) - 1))
       IN IF Truthy(doc) /\ Truthy(doc.playerId)
          THEN <<doc.playerId>> \o before
          ELSE before

\* Variant of CollectPlayerIds that pushes an id only when the list does not
\* hold it yet.
RECURSIVE CollectPlayerIdsDedup(_)
CollectPlayerIdsDedup(snap) ==
  IF snap = <<>> THEN <<>>
  ELSE LET doc == snap[Len(snap)]
           before == CollectPlayerIdsDedup(SubSeq(snap, 1, Len(snap) - 1))
       IN IF /\ Truthy(doc)
             /\ Truthy(doc.playerId)
             /\ \A k \in 1..Len(before) : before[k] # doc.playerId
          THEN Append(before, doc.playerId)
          ELSE before

\* usersSnapshot.forEach(doc => { if (data && data.playerId) playerIds.push(data.playerId) })
RECURSIVE CollectPlayerIds(_)
CollectPlayerIds(snap) ==
  IF snap = <<>> THEN <<>>
  ELSE LET doc == snap[Len(snap)]
           before == CollectPlayerIds(SubSeq(snap, 1, Len(snap) - 1))
       IN IF Truthy(doc) /\ Truthy(doc.playerId)
          THEN Append(before, doc.playerId)
          ELSE before

\* The QuerySnapshot the users query resolves to.
QuerySnapshot(snap) == [t |-> "object", docs |-> snap]

\* Faulty variant of NoRecipients: the empty list is not recognised.
NoRecipientsNever(ids) == Len(ids) < 0

\* playerIds.length === 0
NoRecipients(ids) == Len(ids) = 0

\* JSON.stringify(payload): a property whose value is undefined is left out.
JSONStringify(o) == [k \in {f \in DOMAIN o : o[f] # Undefined} |-> o[k]]

\* The call of fetch: the Authorization header and the serialized payload.
FetchCall(p) ==
  [url |-> "https://onesignal.com/api/v1/notifications",
   authorization |-> env.ONESIGNAL_REST_API_KEY,
   body |-> JSONStringify(p)]

\* data.errors throws a TypeError when data is null.
ErrorsThrows(d) == d.t \in {"undefined", "null"}

\* Faulty variant of HasErrors: errors counts only as a non-empty array.
HasErrorsNonEmptyArray(d) == d.errors.t = "array" /\ Len(d.errors.e) > 0

\* if (data.errors)
HasErrors(d) == Truthy(d.errors)

\* Faulty variant of InternalErrorBody: the text is put under message, not
\* under error.
InternalErrorBodyAsMessage == [success |-> Bool("false"), message |-> Str("Internal Server Error")]

\* The response bodies.
MethodNotAllowedBody == [error |-> Str("Method not allowed")]
UnauthorizedBody == [error |-> Str("Unauthorized - Invalid API Key")]
ConfigMissingBody == [error |-> Str("OneSignal configuration missing on server.")]
BadRequestBody == [error |-> Str("Missing title or message")]
NoUsersBody == [success |-> Bool("true"), message |-> Str("No subscribed users found.")]
ProviderErrorBody(d) == [success |-> Bool("false"), error |-> d.errors]
SuccessBody(d) == [success |-> Bool("true"), data |-> d]
InternalErrorBody == [success |-> Bool("false"), error |-> Str("Internal Server Error")]

\* res.status(status).json(body)
Reply(status, body) == Append(res, [status |-> status, body |-> body])

(***************************************************************************)
(* The synchronous part of the handler: from its call to the first await   *)
(* or to the response.                                                     *)
(***************************************************************************)
\* The call answers at once: nothing is read, nothing is sent.
Answer(r, status, body, thrown) ==
  /\ req' = r
  /\ res' = Reply(status, body)
  /\ error' = thrown
  /\ pc' = "done"
  /\ UNCHANGED <<env, payload, usersSnapshot, playerIds, data, queries, sent>>

Reject405 ==
  /\ pc = "idle"
  /\ \E r \in Requests :
       /\ ~MethodAllowed(r)
       /\ Answer(r, 405, MethodNotAllowedBody, "none")

Reject401 ==
  /\ pc = "idle"
  /\ \E r \in Requests :
       /\ MethodAllowed(r)
       /\ ~ApiKeyOk(r)
       /\ Answer(r, 401, UnauthorizedBody, "none")

RejectConfig ==
  /\ pc = "idle"
  /\ \E r \in Requests :
       /\ MethodAllowed(r)
       /\ ApiKeyOk(r)
       /\ ~ConfigOk
       /\ Answer(r, 500, ConfigMissingBody, "none")

\* The destructuring of req.body throws inside the try block: the catch
\* block answers 500.
RejectNoBody ==
  /\ pc = "idle"
  /\ \E r \in Requests :
       /\ Admitted(r)
       /\ DestructureThrows(r)
       /\ Answer(r, 500, InternalErrorBody, "TypeError: req.body")

Reject400 ==
  /\ pc = "idle"
  /\ \E r \in Requests :
       /\ Admitted(r)
       /\ ~DestructureThrows(r)
       /\ ~TitleAndMessage(r)
       /\ Answer(r, 400, BadRequestBody, "none")

\* toAll: the segment is set and fetch is called.
BeginBroadcast ==
  /\ pc = "idle"
  /\ \E r \in Requests :
       /\ Valid(r)
       /\ ToAll(r)
       /\ req' = r
       /\ payload' = WithSegments(BasePayload(r))
       /\ sent' = Append(sent, FetchCall(WithSegments(BasePayload(r))))
  /\ pc' = "awaitFetch"
  /\ UNCHANGED <<env, usersSnapshot, playerIds, data, error, queries, res>>

\* not toAll: the users collection is queried.
BeginQuery ==
  /\ pc = "idle"
  /\ \E r \in Requests :
       /\ Valid(r)
       /\ ~ToAll(r)
       /\ req' = r
       /\ payload' = BasePayload(r)
  /\ queries' = queries + 1
  /\ pc' = "awaitQuery"
  /\ UNCHANGED <<env, usersSnapshot, playerIds, data, error, sent, res>>

(***************************************************************************)
(* The continuations.                                                      *)
(***************************************************************************)
\* The query resolves and no playerId is collected: 200 without a send.
QueryResolveEmpty ==
  /\ pc = "awaitQuery"
  /\ \E snap \in Snapshots :
       /\ NoRecipients(CollectPlayerIds(snap))
       /\ usersSnapshot' = QuerySnapshot(snap)
       /\ playerIds' = CollectPlayerIds(snap)
  /\ res' = Reply(200, NoUsersBody)
  /\ pc' = "done"
  /\ UNCHANGED <<env, req, payload, data, error, queries, sent>>

\* The query resolves with playerIds: they are set and fetch is called.
QueryResolveSend ==
  /\ pc = "awaitQuery"
  /\ \E snap \in Snapshots :
       /\ ~NoRecipients(CollectPlayerIds(snap))
       /\ usersSnapshot' = QuerySnapshot(snap)
       /\ playerIds' = CollectPlayerIds(snap)
       /\ payload' = WithPlayerIds(payload, CollectPlayerIds(snap))
       /\ sent' = Append(sent, FetchCall(WithPlayerIds(payload, CollectPlayerIds(snap))))
  /\ pc' = "awaitFetch"
  /\ UNCHANGED <<env, req, data, error, queries, res>>

\* Faulty variant of QueryReject: the failed read is taken for an empty
\* collection and answered 200.
QueryRejectSwallowed ==
  /\ pc = "awaitQuery"
  /\ error' = "users query rejected"
  /\ res' = Reply(200, [success |-> Bool("true"), message |-> Str("No subscribed users found.")])
  /\ pc' = "done"
  /\ UNCHANGED <<env, req, payload, usersSnapshot, playerIds, data, queries, sent>>

\* The query rejects: the catch block answers 500.
QueryReject ==
  /\ pc = "awaitQuery"
  /\ error' = "users query rejected"
  /\ res' = Reply(500, InternalErrorBody)
  /\ pc' = "done"
  /\ UNCHANGED <<env, req, payload, usersSnapshot, playerIds, data, queries, sent>>

\* fetch resolves: response.json() is awaited.
FetchResolve ==
  /\ pc = "awaitFetch"
  /\ pc' = "awaitJson"
  /\ UNCHANGED <<env, req, payload, usersSnapshot, playerIds, data, error, queries, sent, res>>

\* fetch rejects: the catch block answers 500.
FetchReject ==
  /\ pc = "awaitFetch"
  /\ error' = "fetch rejected"
  /\ res' = Reply(500, InternalErrorBody)
  /\ pc' = "done"
  /\ UNCHANGED <<env, req, payload, usersSnapshot, playerIds, data, queries, sent>>

\* response.json() resolves to null: data.errors throws.
JsonResolveNull ==
  /\ pc = "awaitJson"
  /\ \E d \in ProviderData :
       /\ ErrorsThrows(d)
       /\ data' = d
  /\ error' = "TypeError: data.errors"
  /\ res' = Reply(500, InternalErrorBody)
  /\ pc' = "done"
  /\ UNCHANGED <<env, req, payload, usersSnapshot, playerIds, queries, sent>>

\* response.json() resolves to data with errors: 500 with the errors.
JsonResolveErrors ==
  /\ pc = "awaitJson"
  /\ \E d \in ProviderData :
       /\ ~ErrorsThrows(d)
       /\ HasErrors(d)
       /\ data' = d
       /\ res' = Reply(500, ProviderErrorBody(d))
  /\ pc' = "done"
  /\ UNCHANGED <<env, req, payload, usersSnapshot, playerIds, error, queries, sent>>

\* response.json() resolves to data without errors: 200 with the data.
JsonResolveOk ==
  /\ pc = "awaitJson"
  /\ \E d \in ProviderData :
       /\ ~ErrorsThrows(d)
       /\ ~HasErrors(d)
       /\ data' = d
       /\ res' = Reply(200, SuccessBody(d))
  /\ pc' = "done"
  /\ UNCHANGED <<env, req, payload, usersSnapshot, playerIds, error, queries, sent>>

\* response.json() rejects (the body is not JSON): the catch block answers 500.
JsonReject ==
  /\ pc = "awaitJson"
  /\ error' = "response.json rejected"
  /\ res' = Reply(500, InternalErrorBody)
  /\ pc' = "done"
  /\ UNCHANGED <<env, req, payload, usersSnapshot, playerIds, data, queries, sent>>

\* The handler has answered and returns: its locals are gone and the next
\* request finds the function idle.
Return ==
  /\ pc = "done"
  /\ pc' = "idle"
  /\ req' = NoRequest
  /\ payload' = Undefined
  /\ usersSnapshot' = Undefined
  /\ playerIds' = <<>>
  /\ data' = Undefined
  /\ error' = "none"
  /\ queries' = 0
  /\ sent' = <<>>
  /\ res' = <<>>
  /\ UNCHANGED env

Next ==
  \/ Reject405
  \/ Reject401
  \/ RejectConfig
  \/ RejectNoBody
  \/ Reject400
  \/ BeginBroadcast
  \/ BeginQuery
  \/ QueryResolveEmpty
  \/ QueryResolveSend
  \/ QueryReject
  \/ FetchResolve
  \/ FetchReject
  \/ JsonResolveNull
  \/ JsonResolveErrors
  \/ JsonResolveOk
  \/ JsonReject
  \/ Return

Spec == Init /\ [][Next]_vars

(***************************************************************************)
(* The vocabulary of the properties, stated on the text values the request *)
(* and the records carry rather than through the handler's own tests.      *)
(***************************************************************************)
\* A text value that is there: not missing, not null, not the empty string.
Present(x) == x \notin {Undefined, Null, Str("")}

HasBody(r) == r.body.t = "object"
TitleOf(r) == IF HasBody(r) THEN r.body.title ELSE Undefined
MessageOf(r) == IF HasBody(r) THEN r.body.message ELSE Undefined

\* The x-api-key header is a non-empty string equal to the configured secret.
KeyMatches(r) == r.apiKey.t = "string" /\ r.apiKey.v # "" /\ r.apiKey = env.API_KEY

\* Both provider credentials are configured.
Configured ==
  /\ env.ONESIGNAL_APP_ID.t = "string" /\ env.ONESIGNAL_APP_ID.v # ""
  /\ env.ONESIGNAL_REST_API_KEY.t = "string" /\ env.ONESIGNAL_REST_API_KEY.v # ""

\* The request passes the method, API-key, configuration and title/message checks.
PassesChecks(r) ==
  /\ r.method = "POST"
  /\ KeyMatches(r)
  /\ Configured
  /\ Present(TitleOf(r))
  /\ Present(MessageOf(r))

\* toAll as a boolean.
ToAllIsTrue(r) == r.body.toAll = Bool("true")
ToAllIsFalse(r) == r.body.toAll = Bool("false")

\* A request is being handled or has been answered.
InRequest == pc # "idle"
Answered == pc = "done"

\* The users query has resolved, and the documents it resolved to.
QueryResolved == usersSnapshot # Undefined
Records == usersSnapshot.docs

\* The positions of the records that carry a usable device id.
UsableAt(docs) == {i \in 1..Len(docs) : docs[i].t = "object" /\ Present(docs[i].playerId)}

\* ids is the subsequence of the usable device ids of docs, in encounter order.
IsUsableSubsequence(ids, docs) ==
  LET I == UsableAt(docs)
  IN /\ Len(ids) = Cardinality(I)
     /\ \A i \in I : ids[Cardinality({j \in I : j <= i})] = docs[i].playerId

\* The audience fields of a body handed to the provider.
HasSegments(b) == "included_segments" \in DOMAIN b
HasPlayerIds(b) == "include_player_ids" \in DOMAIN b

(***************************************************************************)
(* C1: a request that passes the method, API-key, configuration and        *)
(* title/message checks with toAll true hands the provider a payload with  *)
(* included_segments = ["All"], and the users collection is never queried  *)
(* during that request.                                                    *)
(***************************************************************************)
C1_BroadcastNeverQueries ==
  (InRequest /\ PassesChecks(req) /\ ToAllIsTrue(req)) =>
    /\ queries = 0
    /\ ~QueryResolved
    /\ Len(sent) = 1
    /\ HasSegments(sent[1].body)
    /\ sent[1].body.included_segments = Arr(<<Str("All")>>)

C1_Witness ==
  /\ Answered
  /\ PassesChecks(req)
  /\ ToAllIsTrue(req)
  /\ Len(sent) = 1
  /\ res[1].status = 200

(***************************************************************************)
(* C2: when toAll is false, the resolved device list is exactly the        *)
(* subsequence of the records' device ids that are present and non-empty / *)
(* non-null, in encounter order; records without a usable id are skipped,  *)
(* and no usable id is dropped or reordered.                               *)
(***************************************************************************)
C2_DeviceListIsUsableSubsequence ==
  QueryResolved =>
    /\ IsUsableSubsequence(playerIds, Records)
    /\ \A i \in DOMAIN sent :
         /\ HasPlayerIds(sent[i].body)
         /\ sent[i].body.include_player_ids = Arr(playerIds)

\* Scenario B: [{p1}, {null}, {p2}] resolves to [p1, p2].
C2_Witness ==
  /\ QueryResolved
  /\ ToAllIsFalse(req)
  /\ Records = <<[t |-> "object", playerId |-> Str("p1")],
                 [t |-> "object", playerId |-> Null],
                 [t |-> "object", playerId |-> Str("p2")]>>
  /\ playerIds = <<Str("p1"), Str("p2")>>
  /\ Len(sent) = 1

(***************************************************************************)
(* C3: when toAll is false and the users collection is empty or yields no  *)
(* usable device id, the handler answers 200 with success true and the     *)
(* provider is never called during that request.                           *)
(***************************************************************************)
C3_NoRecipientsShortCircuit ==
  (QueryResolved /\ UsableAt(Records) = {}) =>
    /\ Answered
    /\ sent = <<>>
    /\ Len(res) = 1
    /\ res[1].status = 200
    /\ "success" \in DOMAIN res[1].body
    /\ res[1].body.success = Bool("true")

C3_Witness ==
  /\ QueryResolved
  /\ ToAllIsFalse(req)
  /\ Len(Records) >= 2
  /\ UsableAt(Records) = {}
  /\ Answered

(***************************************************************************)
(* C4: every payload sent to the provider has exactly one of the two       *)
(* audience fields populated, included_segments or a non-empty             *)
(* include_player_ids, never both and never neither, whatever toAll is     *)
(* (non-boolean values included) and whatever the users collection holds.  *)
(***************************************************************************)
C4_ExactlyOneAudienceField ==
  \A i \in DOMAIN sent :
    LET b == sent[i].body
    IN /\ HasSegments(b) # HasPlayerIds(b)
       /\ HasSegments(b) => (b.included_segments.t = "array" /\ Len(b.included_segments.e) > 0)
       /\ HasPlayerIds(b) => (b.include_player_ids.t = "array" /\ Len(b.include_player_ids.e) > 0)

\* A non-boolean falsy toAll sends an explicit device list.
C4_Witness ==
  /\ Len(sent) = 1
  /\ req.body.toAll = Num("0")
  /\ HasPlayerIds(sent[1].body)
  /\ ~HasSegments(sent[1].body)

(***************************************************************************)
(* C5, as stated: when toAll is false the device list placed in the        *)
(* payload contains no duplicates; a device id carried by two or more      *)
(* records appears once in include_player_ids.                             *)
(***************************************************************************)
C5_NoDuplicateDeviceIds ==
  \A i \in DOMAIN sent :
    HasPlayerIds(sent[i].body) =>
      LET ids == sent[i].body.include_player_ids.e
      IN \A j, k \in 1..Len(ids) : j # k => ids[j] # ids[k]

\* How many records carry the usable device id, and how often the list holds it.
Carriers(docs, id) == Cardinality({i \in UsableAt(docs) : docs[i].playerId = id})
Occurrences(ids, id) == Cardinality({k \in 1..Len(ids) : ids[k] = id})

(***************************************************************************)
(* C5, amended: when toAll is false the device list placed in the payload  *)
(* is not deduplicated; a device id carried by k records appears exactly k *)
(* times in include_player_ids.                                            *)
(***************************************************************************)
C5_DeviceIdsKeepMultiplicity ==
  QueryResolved =>
    /\ \A i \in UsableAt(Records) :
         Occurrences(playerIds, Records[i].playerId) = Carriers(Records, Records[i].playerId)
    /\ \A i \in DOMAIN sent : sent[i].body.include_player_ids.e = playerIds

C5_Witness ==
  /\ QueryResolved
  /\ ToAllIsFalse(req)
  /\ Len(sent) = 1
  /\ \E i \in UsableAt(Records) : Carriers(Records, Records[i].playerId) >= 2
  /\ \E j, k \in 1..Len(sent[1].body.include_player_ids.e) :
       /\ j # k
       /\ sent[1].body.include_player_ids.e[j] = sent[1].body.include_player_ids.e[k]

(***************************************************************************)
(* C6, as stated: every error outcome (405, 401, 400, 500) is returned as  *)
(* a JSON body that holds both a success flag and an error description.    *)
(***************************************************************************)
C6_EveryErrorHasSuccessFlag ==
  \A i \in DOMAIN res :
    res[i].status >= 400 =>
      /\ "success" \in DOMAIN res[i].body
      /\ "error" \in DOMAIN res[i].body

\* The request is turned away by one of the four checks: method, API key,
\* provider configuration, title/message of a body that is there.
TurnedAway(r) ==
  \/ r.method # "POST"
  \/ ~KeyMatches(r)
  \/ ~Configured
  \/ (HasBody(r) /\ ~(Present(TitleOf(r)) /\ Present(MessageOf(r))))

(***************************************************************************)
(* C6, amended: every error outcome is returned as a JSON body with an     *)
(* error description; the success flag (false) comes with it exactly for   *)
(* the errors raised inside the try block after the title/message check    *)
(* or by reading the body (UserSourceUnavailable, ProviderRejected,        *)
(* Unexpected), while the 405, 401, configuration-missing 500 and 400      *)
(* responses hold the error description alone.                             *)
(***************************************************************************)
C6_ErrorBodies ==
  \A i \in DOMAIN res :
    res[i].status >= 400 =>
      /\ "error" \in DOMAIN res[i].body
      /\ Present(res[i].body.error)
      /\ ("success" \in DOMAIN res[i].body) <=> ~TurnedAway(req)
      /\ ("success" \in DOMAIN res[i].body) => res[i].body.success = Bool("false")
      /\ TurnedAway(req) => res[i].status \in {400, 401, 405, 500}
      /\ ~TurnedAway(req) => res[i].status = 500

C6_Witness ==
  /\ Answered
  /\ req.method = "POST"
  /\ KeyMatches(req)
  /\ Configured
  /\ res[1].status = 400
  /\ "success" \notin DOMAIN res[1].body
  /\ "error" \in DOMAIN res[1].body

(***************************************************************************)
(* C7: a POST request with a matching API key and configured provider      *)
(* credentials whose title or message is missing or empty is answered 400, *)
(* and neither the users collection is queried nor the provider called,    *)
(* whatever toAll is.                                                      *)
(***************************************************************************)
C7_MissingTitleOrMessageIs400 ==
  (/\ Answered
   /\ req.method = "POST"
   /\ KeyMatches(req)
   /\ Configured
   /\ ~(Present(TitleOf(req)) /\ Present(MessageOf(req)))) =>
    /\ Len(res) = 1
    /\ res[1].status = 400
    /\ queries = 0
    /\ sent = <<>>

\* With a body that is there, the title/message check does answer 400 before
\* any read or send; the 500 above comes from the body that is not there.
C7_WithBodyIs400 ==
  (/\ Answered
   /\ req.method = "POST"
   /\ KeyMatches(req)
   /\ Configured
   /\ HasBody(req)
   /\ ~(Present(TitleOf(req)) /\ Present(MessageOf(req)))) =>
    /\ res = <<[status |-> 400, body |-> [error |-> Str("Missing title or message")]]>>
    /\ queries = 0
    /\ sent = <<>>

C9_UserSourceFailureIsTerminal ==
  /\ queries <= 1
  /\ (error = "users query rejected") =>
       /\ Answered
       /\ Len(res) = 1
       /\ res[1].status = 500
       /\ queries = 1
       /\ ~QueryResolved
       /\ sent = <<>>

C9_Witness ==
  /\ error = "users query rejected"
  /\ ToAllIsFalse(req)
  /\ Answered
  /\ res[1].status = 500

(***************************************************************************)
(* C10: the users collection is read and the provider is called only in    *)
(* POST requests whose x-api-key header is non-empty and equal to the      *)
(* configured secret, with both provider credentials configured; the       *)
(* checks come in the order method (405), API key (401), configuration     *)
(* (500), so a request that is past the method check with a missing or     *)
(* mismatched key, or with no secret configured, is answered 401, and no   *)
(* request with such a key causes any external I/O.                        *)
(***************************************************************************)
C10_ChecksGuardExternalIO ==
  /\ (queries > 0 \/ sent # <<>>) =>
       (req.method = "POST" /\ KeyMatches(req) /\ Configured)
  /\ (InRequest /\ ~KeyMatches(req)) => (queries = 0 /\ sent = <<>>)
  /\ Answered =>
       /\ req.method # "POST" => res[1].status = 405
       /\ (req.method = "POST" /\ ~KeyMatches(req)) => res[1].status = 401
       /\ (req.method = "POST" /\ KeyMatches(req) /\ ~Configured) => res[1].status = 500

\* No secret is configured at all: a POST with a key is answered 401.
C10_Witness ==
  /\ Answered
  /\ req.method = "POST"
  /\ env.API_KEY = Undefined
  /\ req.apiKey = Str("k1")
  /\ Configured
  /\ res[1].status = 401
  /\ queries = 0
  /\ sent = <<>>

====
